---- MODULE Spec2Model ----
(***************************************************************************)
(* needl: sorted-merge diff of a local and a remote listing (mainExit in   *)
(* cmd/needl/main.go) and the resumable download engine (DownloadToFile    *)
(* and downloadContext.downloadImpl).                                      *)
(*                                                                         *)
(* Instants are seconds; 0 is the zero time.Time.  File names are          *)
(* integers and the sort name of n is (n + 1) \div 2, so that names 1 and  *)
(* 2 ("Foo", "foo") share sort name 1, ordered as strings are.             *)
(***************************************************************************)
EXTENDS Integers, Sequences, FiniteSets, TLC

\* ---------------------------------------------------------------- bounds
MaxLocals == 2
MaxRemotes == 2
MaxSize == 2
MaxRetryOpt == 2
MaxAttempts == 3
MaxBackoffRetry == 12
MaxWork == 2
MaxThreads == 2
MaxEntries == 2

\* ------------------------------------------------------- data of the diff
SizeUnknown == -1
ZeroTime == 0

\* the file names "Foo", "foo", "goo"
Names == {1, 2, 3}

\* strings.ToLower(name): the names 2k-1 and 2k differ only in case
ToLower(n) == (n + 1) \div 2

\* <<Timestamp, Size>> of a local file: the reference, a later mtime, a
\* larger size
LocalAttrs == {<<60, 1>>, <<120, 1>>, <<60, 2>>}

\* <<Timestamp, Size>> of a remote file: the reference, the time unknown,
\* the size unknown
RemoteAttrs == {<<60, 1>>, <<ZeroTime, 1>>, <<60, SizeUnknown>>}

LocalFile == {[Name |-> n, SortName |-> ToLower(n), Timestamp |-> a[1], Size |-> a[2]] :
                n \in Names, a \in LocalAttrs}

RemoteFile == {[Name |-> n, SortName |-> ToLower(n), Timestamp |-> a[1], Size |-> a[2]] :
                n \in Names, a \in RemoteAttrs}

\* the result of sort.Slice by SortName: any order of equal sort names
IsSorted(s) == \A k \in 1..(Len(s) - 1) : s[k].SortName <= s[k + 1].SortName

SeqsUpTo(S, n) == UNION {[1..k -> S] : k \in 0..n}

\* the directory entries in whatever order they were read
getLocalsAsRead == SeqsUpTo(LocalFile, MaxLocals)

getSortedLocals == {s \in SeqsUpTo(LocalFile, MaxLocals) : IsSorted(s)}

getSortedRemotes == {s \in SeqsUpTo(RemoteFile, MaxRemotes) : IsSorted(s)}

VARIABLES
  locals,      \* mainExit: locals, sorted by SortName
  remotes,     \* mainExit: remotes, sorted by SortName
  i,           \* mainExit: index into locals (0-based, as in the code)
  j,           \* mainExit: index into remotes
  extra,       \* mainExit: extra
  missing,     \* mainExit: missing
  changed,     \* mainExit: changed
  extraAt,     \* positions in locals of the entries of extra
  missingAt,   \* positions in remotes of the entries of missing
  changedAt,   \* positions in remotes of the entries of changed
  pairs,       \* the <<i, j>> the equal-sort-name branch advanced over
  run          \* which run of the program the diff belongs to, 0 before any

diffVars == <<locals, remotes, i, j, extra, missing, changed,
              extraAt, missingAt, changedAt, pairs, run>>

VARIABLES
  pc,          \* where the DownloadToFile call stands
  dc,          \* downloadContext: opts, bytesRead, curRetry, canResume
  res,         \* DownloadResults of the call
  err,         \* the error the call holds ("" is nil)
  tmp,         \* the file at localPath + ".tmp"
  final,       \* the file at localPath
  entry,       \* the DownloadOptions the call was entered with
  finalAtEntry,\* the file at localPath when the call was entered
  requests,    \* number of http.DefaultClient.Do calls of the call
  sleeps,      \* number of time.Sleep calls of the call
  lastSleep,   \* milliseconds of the time.Sleep in progress (0: none)
  range,       \* offset of the Range header of the latest request
  resp,        \* the response whose headers or body are being read
  event        \* what the network or the disk did last

dlVars == <<pc, dc, res, err, tmp, final, entry, finalAtEntry,
            requests, sleeps, lastSleep, range, resp, event>>

VARIABLES
  mainPc,      \* where mainExit stands
  exitCode,    \* the value mainExit returned (-1: none yet)
  threads,     \* cfg.Threads
  fed,         \* number of work items main has sent on ch
  closed,      \* close(ch) has happened
  wk,          \* per worker goroutine: where it stands and its r
  started,     \* work items in the order of their DownloadToFile calls
  done,        \* work items in the order their DownloadToFile returned
  failed,      \* work items whose DownloadToFile returned an error
  world,       \* what the download root and the server hold of each name
  listed,      \* listFiles: where its two goroutines stand
  disk         \* the entries of the download root

poolVars == <<mainPc, exitCode, threads, fed, closed, wk, started, done, failed,
              world, listed, disk>>

VARIABLES
  dir,         \* the files of the remote directory
  lead,        \* the lines the response has before the document
  scraped      \* per body: what ScrapeFromReader returned

scrapeVars == <<dir, lead, scraped>>

vars == <<diffVars, dlVars, poolVars, scrapeVars>>

\* ------------------------------------------------ data of the download
Absent == -1
NoRange == -1
NowTime == 600
GarbageTime == 700
Minute == 60

\* time.Truncate(time.Minute)
Truncate(t) == t - (t % Minute)

DownloadOptions == [ExpectedSize : {-1} \cup 0..MaxSize,
                    ExpectedLastModified : {ZeroTime, 60, 90},
                    MaxRetry : 0..MaxRetryOpt]

NoOptions == [ExpectedSize |-> 0, ExpectedLastModified |-> ZeroTime, MaxRetry |-> 0]

NoContext == [opts |-> NoOptions, bytesRead |-> 0, curRetry |-> 0, canResume |-> FALSE]

NoResults == [ExpectedSize |-> 0, ActualSize |-> 0, LastModified |-> ZeroTime, Retries |-> 0]

NoFile == [exists |-> FALSE, len |-> 0, mtime |-> ZeroTime]

OldFile == [exists |-> TRUE, len |-> 1, mtime |-> 30]

\* the status line and the headers of a response the engine reads
Responses == [status : {200, 206, 404},
              acceptRanges : BOOLEAN,
              contentLength : {Absent} \cup 0..MaxSize,
              lastModified : {Absent, 90, 120}]

\* what io.Copy gets from resp.Body: n bytes, then EOF or a read error; a
\* body with a Content-Length ends in EOF after exactly that many bytes
\* and in an error (unexpected EOF, reset) before
Bodies(r) ==
  {b \in [n : 0..MaxSize, end : {"eof", "err"}] :
     r.contentLength # Absent =>
       \/ b.end = "eof" /\ b.n = r.contentLength
       \/ b.end = "err" /\ b.n < r.contentLength}

NoResponse == [status |-> 0, acceptRanges |-> FALSE,
               contentLength |-> Absent, lastModified |-> Absent]

\* main_test.go:583-593
parseContentLength(h) == IF h.contentLength = Absent THEN -1 ELSE h.contentLength

\* the header taken to the second
parseLastModifiedExact(h) ==
  IF h.lastModified = Absent THEN ZeroTime ELSE h.lastModified

\* main_test.go:596-606
parseLastModifiedMinute(h) ==
  IF h.lastModified = Absent THEN ZeroTime ELSE Truncate(h.lastModified)

RECURSIVE intPowLoop(_, _, _)
intPowLoop(result, base, exp) ==
  LET r == IF exp % 2 = 1 THEN result * base ELSE result
      e == exp \div 2
  IN IF e = 0 THEN r ELSE intPowLoop(r, base * base, e)

\* main_test.go:567-580
intPow(base, exp) == intPowLoop(1, base, exp)

\* rand.Int63n(n): some integer of [0, n); the two ends
Int63n(n) == {0, n - 1}

\* the exponent left uncapped
backoffUncapped(curRetry) ==
  LET ms == intPow(2, curRetry) * 500
  IN {ms + jitter : jitter \in Int63n(ms \div 10)}

\* main_test.go:556-564, in milliseconds
backoff(curRetry) ==
  LET e == IF curRetry > 10 THEN 10 ELSE curRetry
      ms == intPow(2, e) * 500
  IN {ms + jitter : jitter \in Int63n(ms \div 10)}

\* ------------------------------------------------------- download engine
DownloadIdle ==
  /\ pc = "idle"
  /\ dc = NoContext
  /\ res = NoResults
  /\ err = ""
  /\ tmp = NoFile
  /\ final = NoFile
  /\ entry = NoOptions
  /\ finalAtEntry = NoFile
  /\ requests = 0
  /\ sleeps = 0
  /\ lastSleep = 0
  /\ range = NoRange
  /\ resp = NoResponse
  /\ event = "none"

DiffIdle ==
  /\ locals = <<>>
  /\ remotes = <<>>
  /\ i = 0
  /\ j = 0
  /\ extra = <<>>
  /\ missing = <<>>
  /\ changed = <<>>
  /\ extraAt = <<>>
  /\ missingAt = <<>>
  /\ changedAt = <<>>
  /\ pairs = <<>>
  /\ run = 0

PoolIdle ==
  /\ mainPc = "idle"
  /\ exitCode = -1
  /\ threads = 0
  /\ fed = 0
  /\ closed = FALSE
  /\ wk = <<>>
  /\ started = <<>>
  /\ done = <<>>
  /\ failed = {}
  /\ world = <<>>
  /\ listed = [local |-> "idle", remote |-> "idle"]
  /\ disk = <<>>

NotScraped == [parsedAs |-> "none", err |-> "not scraped", remotes |-> <<>>]

ScrapeIdle ==
  /\ dir = <<>>
  /\ lead = <<>>
  /\ scraped = <<>>

\* before a call: localPath may or may not exist
DownloadInit ==
  /\ DiffIdle
  /\ PoolIdle
  /\ ScrapeIdle
  /\ pc = "idle"
  /\ dc = NoContext
  /\ res = NoResults
  /\ err = ""
  /\ tmp = NoFile
  /\ final \in {NoFile, OldFile}
  /\ entry = NoOptions
  /\ finalAtEntry = NoFile
  /\ requests = 0
  /\ sleeps = 0
  /\ lastSleep = 0
  /\ range = NoRange
  /\ resp = NoResponse
  /\ event = "none"

\* main_test.go:297-333: DownloadToFile up to the call of downloadImpl
DownloadToFile ==
  /\ pc = "idle"
  /\ \E opts \in DownloadOptions, createOk \in BOOLEAN :
       /\ entry' = opts
       /\ res' = [ExpectedSize |-> opts.ExpectedSize, ActualSize |-> 0,
                  LastModified |-> opts.ExpectedLastModified, Retries |-> 0]
       /\ IF createOk
            THEN /\ tmp' = [exists |-> TRUE, len |-> 0, mtime |-> NowTime]
                 /\ dc' = [opts |-> opts, bytesRead |-> 0, curRetry |-> 0,
                           canResume |-> FALSE]
                 /\ err' = ""
                 /\ pc' = "impl"
                 /\ UNCHANGED event
            ELSE /\ err' = "create file"
                 /\ pc' = "returned"
                 /\ event' = "iofail"
                 /\ UNCHANGED <<tmp, dc>>
  /\ finalAtEntry' = final
  /\ UNCHANGED <<final, requests, sleeps, lastSleep, range, resp>>
  /\ UNCHANGED diffVars
  /\ UNCHANGED poolVars
  /\ UNCHANGED scrapeVars

\* a return of downloadImpl (from whatever depth of the recursion); the
\* deferred resp.Body.Close drops the response
ImplReturn(d, e) ==
  /\ dc' = d
  /\ err' = e
  /\ pc' = "implReturned"
  /\ resp' = NoResponse
  /\ UNCHANGED <<sleeps, lastSleep>>

\* the budget test with > for >=
fnRetryOrErrOffByOne(d, e) ==
  LET d1 == [d EXCEPT !.curRetry = @ + 1]
  IN IF d1.opts.MaxRetry > 0 /\ d1.curRetry > d1.opts.MaxRetry
       THEN ImplReturn(d1, e)
       ELSE /\ dc' = d1
            /\ err' = ""
            /\ pc' = "retry"
            /\ resp' = NoResponse
            /\ sleeps' = sleeps + 1
            /\ lastSleep' \in backoff(d1.curRetry)

\* main_test.go:411-433, up to and including the time.Sleep
fnRetryOrErr(d, e) ==
  LET d1 == [d EXCEPT !.curRetry = @ + 1]
  IN IF d1.opts.MaxRetry > 0 /\ d1.curRetry >= d1.opts.MaxRetry
       THEN ImplReturn(d1, e)
       ELSE /\ dc' = d1
            /\ err' = ""
            /\ pc' = "retry"
            /\ resp' = NoResponse
            /\ sleeps' = sleeps + 1
            /\ lastSleep' \in backoff(d1.curRetry)

\* a Range header on every request
rangeHeaderAlways(d) == d.bytesRead

\* main_test.go:391-407: the offset of "Range: bytes=<offset>-", or none
rangeHeader(d) == IF d.canResume /\ d.bytesRead > 0 THEN d.bytesRead ELSE NoRange

\* main_test.go:381-440: downloadImpl from its entry (from DownloadToFile
\* or, after the sleep, from fnRetryOrErr) to the return of Do
doRequest ==
  /\ pc \in {"impl", "retry"}
  /\ requests < MaxAttempts
  /\ IF dc.opts.MaxRetry > 0 /\ dc.curRetry >= dc.opts.MaxRetry
       THEN /\ ImplReturn(dc, "max retries exceeded")
            /\ UNCHANGED <<requests, range, event>>
       ELSE /\ requests' = requests + 1
            /\ range' = rangeHeader(dc)
            /\ \/ /\ event' = "transport"
                  /\ fnRetryOrErr(dc, "do request")
               \/ /\ event' = "response"
                  /\ resp' \in Responses
                  /\ pc' = "headers"
                  /\ lastSleep' = 0
                  /\ UNCHANGED <<dc, err, sleeps>>
  /\ UNCHANGED <<res, tmp, final, entry, finalAtEntry>>
  /\ UNCHANGED diffVars
  /\ UNCHANGED poolVars
  /\ UNCHANGED scrapeVars

\* main_test.go:470-487: "" or the error, and the context afterwards
CheckContentLength(d, cl) ==
  IF cl > 0
    THEN IF d.canResume
           THEN IF d.opts.ExpectedSize > 0
                  THEN IF cl # d.opts.ExpectedSize - d.bytesRead
                         THEN [err |-> "expected remaining Content-Length", d |-> d]
                         ELSE [err |-> "", d |-> d]
                  ELSE [err |-> "", d |-> [d EXCEPT !.opts.ExpectedSize = d.bytesRead + cl]]
           ELSE IF d.opts.ExpectedSize > 0 /\ cl # d.opts.ExpectedSize
                  THEN [err |-> "expected Content-Length", d |-> d]
                  ELSE [err |-> "", d |-> [d EXCEPT !.opts.ExpectedSize = cl]]
    ELSE [err |-> "", d |-> d]

\* the header overriding the expected time instead of being checked
CheckLastModifiedAdopts(d, mt) ==
  IF mt # ZeroTime
    THEN [err |-> "", d |-> [d EXCEPT !.opts.ExpectedLastModified = mt]]
    ELSE [err |-> "", d |-> d]

\* main_test.go:489-496
CheckLastModified(d, mt) ==
  IF mt # ZeroTime
    THEN IF d.opts.ExpectedLastModified = ZeroTime
           THEN [err |-> "", d |-> [d EXCEPT !.opts.ExpectedLastModified = mt]]
           ELSE IF mt # d.opts.ExpectedLastModified
                  THEN [err |-> "expected Last-Modified", d |-> d]
                  ELSE [err |-> "", d |-> d]
    ELSE [err |-> "", d |-> d]

\* the header looked at in every response
updateCanResumeAlways(d, r) == r.acceptRanges

\* main_test.go:444-449: Accept-Ranges is looked at only while canResume is false
updateCanResume(d, r) == IF ~d.canResume THEN r.acceptRanges ELSE d.canResume

\* the bytes of earlier attempts kept whatever the server can do
needsTruncateNever(d) == FALSE

\* main_test.go:451-452
needsTruncate(d) == d.bytesRead > 0 /\ ~d.canResume

\* the file left as it is
truncateFileKept(f) == f

\* main_test.go:454-459: f.Seek(0, io.SeekStart) and f.Truncate(0)
truncateFile(f) == [f EXCEPT !.len = 0]

\* main_test.go:442-496: the response headers
readHeaders ==
  /\ pc = "headers"
  /\ LET d1 == [dc EXCEPT !.canResume = updateCanResume(dc, resp)]
         needTruncate == needsTruncate(d1)
     IN \E io \in (IF needTruncate THEN {"ok", "seek", "truncate"} ELSE {"ok"}) :
          IF io = "seek"
            THEN /\ ImplReturn(d1, "seek to start")
                 /\ event' = "iofail"
                 /\ UNCHANGED tmp
            ELSE IF io = "truncate"
              THEN /\ ImplReturn(d1, "truncate")
                   /\ event' = "iofail"
                   /\ UNCHANGED tmp
              ELSE
                LET d2 == IF needTruncate THEN [d1 EXCEPT !.bytesRead = 0] ELSE d1
                    c == CheckContentLength(d2, parseContentLength(resp))
                    m == CheckLastModified(c.d, parseLastModifiedMinute(resp))
                IN /\ tmp' = IF needTruncate THEN truncateFile(tmp) ELSE tmp
                   /\ event' = IF needTruncate THEN "truncate" ELSE event
                   /\ IF c.err # ""
                        THEN ImplReturn(c.d, c.err)
                        ELSE IF m.err # ""
                          THEN ImplReturn(m.d, m.err)
                          ELSE /\ dc' = m.d
                               /\ pc' = "body"
                               /\ UNCHANGED <<err, resp, sleeps, lastSleep>>
  /\ UNCHANGED <<res, final, entry, finalAtEntry, requests, range>>
  /\ UNCHANGED diffVars
  /\ UNCHANGED poolVars
  /\ UNCHANGED scrapeVars

\* the final size left unchecked
CheckFinalSizeSkipped(d) == ""

\* main_test.go:514-517
CheckFinalSize(d) ==
  IF d.opts.ExpectedSize > 0 /\ d.bytesRead # d.opts.ExpectedSize
    THEN "expected final size"
    ELSE ""

\* main_test.go:498-519: io.Copy of the body into f, then the end of the attempt
copyBody ==
  /\ pc = "body"
  /\ \E body \in Bodies(resp) :
       LET d1 == [dc EXCEPT !.bytesRead = @ + body.n]
       IN /\ tmp' = [tmp EXCEPT !.len = @ + body.n]
          /\ IF body.end = "err"
               THEN /\ event' = "readerr"
                    /\ fnRetryOrErr(d1, "download")
               ELSE \E closeOk \in BOOLEAN :
                      IF closeOk
                        THEN /\ event' = "eof"
                             /\ ImplReturn(d1, CheckFinalSize(d1))
                        ELSE /\ event' = "iofail"
                             /\ ImplReturn(d1, "close response body")
  /\ UNCHANGED <<res, final, entry, finalAtEntry, requests, range>>
  /\ UNCHANGED diffVars
  /\ UNCHANGED poolVars
  /\ UNCHANGED scrapeVars

\* the results left as they were before downloadImpl ran
bestKnownResultsStale(d) == res

\* main_test.go:334-338: "useful to have up to date even if there's an error"
bestKnownResults(d) ==
  [ExpectedSize |-> d.opts.ExpectedSize, ActualSize |-> d.bytesRead,
   LastModified |-> d.opts.ExpectedLastModified, Retries |-> d.curRetry]

\* the error of downloadImpl not looked at
DownloadReturnIgnoresErr ==
  /\ pc = "implReturned"
  /\ res' = bestKnownResults(dc)
  /\ \E closeOk \in BOOLEAN :
       IF closeOk
         THEN pc' = "move" /\ UNCHANGED <<err, event>>
         ELSE pc' = "returned" /\ err' = "close file" /\ event' = "iofail"
  /\ UNCHANGED <<dc, tmp, final, entry, finalAtEntry, requests, sleeps, lastSleep,
                 range, resp>>
  /\ UNCHANGED diffVars
  /\ UNCHANGED poolVars
  /\ UNCHANGED scrapeVars

\* main_test.go:334-346: DownloadToFile after downloadImpl returned
DownloadReturn ==
  /\ pc = "implReturned"
  /\ res' = bestKnownResults(dc)
  /\ IF err # ""
       THEN pc' = "returned" /\ UNCHANGED <<err, event>>
       ELSE \E closeOk \in BOOLEAN :
              IF closeOk
                THEN pc' = "move" /\ UNCHANGED <<err, event>>
                ELSE pc' = "returned" /\ err' = "close file" /\ event' = "iofail"
  /\ UNCHANGED <<dc, tmp, final, entry, finalAtEntry, requests, sleeps, lastSleep,
                 range, resp>>
  /\ UNCHANGED diffVars
  /\ UNCHANGED poolVars
  /\ UNCHANGED scrapeVars

\* a replace that removes the destination before it renames
ReplaceFileNotAtomic ==
  /\ pc = "move"
  /\ \E moveOk \in BOOLEAN :
       IF moveOk
         THEN /\ final' = tmp
              /\ tmp' = NoFile
              /\ pc' = "settime"
              /\ UNCHANGED <<err, event>>
         ELSE /\ err' = "move"
              /\ pc' = "returned"
              /\ event' = "iofail"
              /\ final' = NoFile
              /\ UNCHANGED tmp
  /\ UNCHANGED <<dc, res, entry, finalAtEntry, requests, sleeps, lastSleep, range, resp>>
  /\ UNCHANGED diffVars
  /\ UNCHANGED poolVars
  /\ UNCHANGED scrapeVars

\* main_test.go:348-356: atomic.ReplaceFile(tmpPath, localPath)
ReplaceFile ==
  /\ pc = "move"
  /\ \E moveOk \in BOOLEAN :
       IF moveOk
         THEN /\ final' = tmp
              /\ tmp' = NoFile
              /\ pc' = "settime"
              /\ UNCHANGED <<err, event>>
         ELSE /\ err' = "move"
              /\ pc' = "returned"
              /\ event' = "iofail"
              /\ UNCHANGED <<final, tmp>>
  /\ UNCHANGED <<dc, res, entry, finalAtEntry, requests, sleeps, lastSleep, range, resp>>
  /\ UNCHANGED diffVars
  /\ UNCHANGED poolVars
  /\ UNCHANGED scrapeVars

\* main_test.go:358-364 and modtime.go:10-13 (os.Chtimes leaves the time
\* alone for a zero stamp), unnamed/part_001:357-374 (SetFileTime with the
\* nanoseconds of the stamp, which the zero time does not have)
modifyFileTime ==
  /\ pc = "settime"
  /\ \E timeOk \in BOOLEAN :
       IF timeOk
         THEN /\ \E t \in (IF res.LastModified = ZeroTime
                             THEN {final.mtime, GarbageTime}
                             ELSE {res.LastModified}) :
                   final' = [final EXCEPT !.mtime = t]
              /\ UNCHANGED <<err, event>>
         ELSE /\ err' = "set time failed"
              /\ event' = "iofail"
              /\ UNCHANGED final
  /\ pc' = "returned"
  /\ UNCHANGED <<dc, res, tmp, entry, finalAtEntry, requests, sleeps, lastSleep,
                 range, resp>>
  /\ UNCHANGED diffVars
  /\ UNCHANGED poolVars
  /\ UNCHANGED scrapeVars

NextDownload ==
  \/ DownloadToFile
  \/ doRequest
  \/ readHeaders
  \/ copyBody
  \/ DownloadReturn
  \/ ReplaceFile
  \/ modifyFileTime

SpecDownload == DownloadInit /\ [][NextDownload]_vars

\* --------------------------------------------- properties of the download
\* bytes of the temporary file an attempt keeps once it has seen the headers
BytesKept(d, r) ==
  IF d.bytesRead > 0 /\ ~(d.canResume \/ r.acceptRanges) THEN 0 ELSE d.bytesRead

\* the response reports a length that is not what is left of expected_size
ContentLengthMismatch(d, r) ==
  /\ d.opts.ExpectedSize > 0
  /\ r.contentLength > 0
  /\ r.contentLength # d.opts.ExpectedSize - BytesKept(d, r)

\* the response reports another minute than expected_last_modified
LastModifiedMismatch(d, r) ==
  /\ d.opts.ExpectedLastModified # ZeroTime
  /\ r.lastModified # Absent
  /\ r.lastModified - (r.lastModified % 60) # d.opts.ExpectedLastModified

\* the body ended cleanly with another byte count than expected_size
FinalSizeMismatch ==
  /\ event = "eof"
  /\ dc.opts.ExpectedSize > 0
  /\ tmp.len # dc.opts.ExpectedSize

FileBytes(f) == [exists |-> f.exists, len |-> f.len]

\* the call fails here and now: no retry, no sleep, no request, no publication
FatalStep ==
  /\ pc' = "implReturned"
  /\ err' # ""
  /\ dc'.curRetry = dc.curRetry
  /\ sleeps' = sleeps
  /\ requests' = requests
  /\ final' = final

\* C5: the bytes at the final path change only in the atomic-replace step,
\* which installs the temporary file; that step is reached only from a
\* downloadImpl that returned nil, which happens only on a clean EOF with
\* the final size right, after headers whose Content-Length and
\* Last-Modified passed; once replaced, the path is not replaced again.
PublishOnlyValidated ==
  /\ [][FileBytes(final') # FileBytes(final) =>
          /\ pc = "move" /\ pc' = "settime"
          /\ FileBytes(final') = FileBytes(tmp) /\ tmp.exists]_vars
  /\ [][pc' = "move" => pc \in {"move", "implReturned"} /\ err = ""]_vars
  /\ [][(pc' = "implReturned" /\ err' = "") =>
          \/ pc = "implReturned"
          \/ pc = "body" /\ event' = "eof" /\ ~FinalSizeMismatch']_vars
  /\ [][pc' = "body" =>
          \/ pc = "body"
          \/ /\ pc = "headers"
             /\ ~ContentLengthMismatch(dc, resp)
             /\ ~LastModifiedMismatch(dc, resp)]_vars
  /\ [][(pc = "settime" \/ pc = "returned") => (pc' = "settime" \/ pc' = "returned")]_vars
  /\ [](pc = "move" =>
          /\ err = "" /\ event = "eof"
          /\ dc.opts.ExpectedSize > 0 => tmp.len = dc.opts.ExpectedSize)

\* a call that replaced an existing file by the two bytes of its second attempt
PublishOnlyValidatedWitness ==
  /\ pc = "returned" /\ err = ""
  /\ requests = 2
  /\ finalAtEntry = OldFile
  /\ final.len = 2

\* C6 as stated: on success the final file has exactly the resolved
\* expected_size bytes and, when the resolved expected_last_modified is
\* non-zero, that mtime.
SuccessHasExpectedSize ==
  (pc = "returned" /\ err = "") =>
    /\ final.exists
    /\ final.len = res.ExpectedSize
    /\ res.LastModified # ZeroTime => final.mtime = res.LastModified

\* C6 amended: on success the final file holds the bytes_read bytes of the
\* call; these are the resolved expected_size whenever that is positive
\* (the caller's positive value, else one derived from a Content-Length);
\* the mtime is the resolved expected_last_modified when that is non-zero
\* (the caller's value when the caller gave one).
SuccessHasResolvedSize ==
  (pc = "returned" /\ err = "") =>
    /\ final.exists
    /\ final.len = res.ActualSize
    /\ res.ExpectedSize > 0 => final.len = res.ExpectedSize
    /\ entry.ExpectedSize > 0 => res.ExpectedSize = entry.ExpectedSize
    /\ res.LastModified # ZeroTime => final.mtime = res.LastModified
    /\ entry.ExpectedLastModified # ZeroTime =>
         res.LastModified = entry.ExpectedLastModified

\* a success whose size and minute both came from the server
SuccessHasResolvedSizeWitness ==
  /\ pc = "returned" /\ err = ""
  /\ entry.ExpectedSize = 0 /\ res.ExpectedSize = 2
  /\ entry.ExpectedLastModified = ZeroTime /\ res.LastModified = 60
  /\ final.len = 2 /\ final.mtime = 60

\* C7: a validation failure (Content-Length against expected_size,
\* Last-Modified, final byte count) ends downloadImpl with an error in
\* that very step, without retry, sleep or request, and the call then
\* returns that error without touching the final path.
ValidationNeverRetried ==
  /\ [][(/\ pc = "headers"
         /\ pc' # "headers"
         /\ ContentLengthMismatch(dc, resp) \/ LastModifiedMismatch(dc, resp))
        => FatalStep]_vars
  /\ [][(pc = "body" /\ FinalSizeMismatch') => FatalStep]_vars
  /\ [][(pc = "implReturned" /\ err # "") =>
          /\ pc' = "returned" /\ err' = err
          /\ requests' = requests /\ sleeps' = sleeps
          /\ dc' = dc /\ final' = final]_vars
  /\ [][pc = "returned" => FALSE]_vars

\* the second attempt of a call ended on a wrong final byte count
ValidationNeverRetriedWitness ==
  /\ pc = "returned"
  /\ err = "expected final size"
  /\ requests = 2 /\ res.Retries = 1
  /\ final = finalAtEntry

\* C8: a response whose status is neither 200 nor 206 fails the download
\* at once: its body is not copied, nothing is retried, nothing published.
BadStatusIsFatal ==
  [][(pc = "headers" /\ pc' # "headers" /\ resp.status \notin {200, 206})
     => FatalStep]_vars

\* 500 * 2^min(k, 10)
BackoffBase(k) == 500 * 2^(IF k > 10 THEN 10 ELSE k)

\* a step in which Do or the body read failed
RetryableErrorStep ==
  \/ pc \in {"impl", "retry"} /\ requests' = requests + 1 /\ event' = "transport"
  \/ pc = "body" /\ pc' # "body" /\ event' = "readerr"

\* C9: each retryable error adds one to cur_retry; with max_retry > 0 and
\* cur_retry >= max_retry the error is returned and no request follows;
\* otherwise (always, with max_retry = 0) the engine sleeps
\* backoff(cur_retry) and its next step is a request on the same context.
RetryPolicy ==
  /\ [][RetryableErrorStep =>
          /\ dc'.curRetry = dc.curRetry + 1
          /\ dc'.opts.MaxRetry = dc.opts.MaxRetry
          /\ IF dc'.opts.MaxRetry > 0 /\ dc'.curRetry >= dc'.opts.MaxRetry
               THEN /\ pc' = "implReturned" /\ err' # ""
                    /\ sleeps' = sleeps
               ELSE /\ pc' = "retry" /\ err' = ""
                    /\ sleeps' = sleeps + 1
                    /\ lastSleep' >= BackoffBase(dc'.curRetry)
                    /\ 10 * lastSleep' < 11 * BackoffBase(dc'.curRetry)]_vars
  /\ [][pc = "retry" =>
          /\ requests' = requests + 1
          /\ dc'.opts = dc.opts /\ dc'.bytesRead = dc.bytesRead
          /\ dc'.canResume = dc.canResume]_vars
  /\ [][(pc = "implReturned" \/ pc = "returned") => requests' = requests]_vars

\* a call with max_retry = 0 asleep after its second retryable error
RetryPolicyWitness ==
  /\ pc = "retry"
  /\ dc.opts.MaxRetry = 0
  /\ dc.curRetry = 2 /\ sleeps = 2
  /\ lastSleep >= 2000

\* C10: on return Retries is the number of attempts re-issued after an
\* error, that is the requests made minus one.
RetriesCountsReissues ==
  (pc = "returned" /\ requests >= 1) => res.Retries = requests - 1

\* C11: a call with max_retry > 0 that returned because a retryable error
\* brought cur_retry up to max_retry returns the "max retries exceeded"
\* error, not the transport or read error itself.
MaxRetriesExceededKind ==
  (/\ pc = "returned"
   /\ entry.MaxRetry > 0
   /\ res.Retries >= entry.MaxRetry
   /\ event \in {"transport", "readerr"})
  => err = "max retries exceeded"

\* C13: once DownloadToFile has returned, with or without an error, no
\* file is left at localPath + ".tmp".
TmpRemovedOnReturn == pc = "returned" => ~tmp.exists

RangeIffResumable ==
  [][(requests' = requests + 1) =>
       /\ (range' # NoRange) <=> (dc.canResume /\ dc.bytesRead > 0)
       /\ (range' # NoRange) => range' = dc.bytesRead]_vars

\* a second request that asks for the bytes from offset 1 on
RangeIffResumableWitness ==
  /\ pc = "headers"
  /\ requests = 2
  /\ dc.canResume /\ dc.bytesRead = 1
  /\ range = 1

\* C28: can_resume is false when the call enters downloadImpl, changes only
\* while the headers of a response are processed, there only from false to
\* the value of Accept-Ranges: bytes, and once true it stays true until the
\* call returns, whatever later responses carry.
CanResumeMonotone ==
  /\ []((pc = "impl" /\ requests = 0) => ~dc.canResume)
  /\ [][(pc # "idle" /\ dc.canResume) => dc'.canResume]_vars
  /\ [][(pc # "idle" /\ dc'.canResume # dc.canResume) =>
          /\ pc = "headers"
          /\ ~dc.canResume
          /\ dc'.canResume = resp.acceptRanges]_vars

\* the body of a second response is read with can_resume still true
\* although that response has no Accept-Ranges header
CanResumeMonotoneWitness ==
  /\ pc = "body"
  /\ requests = 2
  /\ dc.canResume
  /\ ~resp.acceptRanges
  /\ range = 1

\* C29: when the headers of a response are processed with bytes_read > 0
\* and can_resume false (the response not granting it either), the engine
\* goes on to the body only with the temporary file empty and bytes_read
\* 0; the file grows only while a body is copied, by the bytes copied.
TruncateBeforeBody ==
  /\ [][(/\ pc = "headers" /\ pc' = "body"
          /\ dc.bytesRead > 0
          /\ ~dc.canResume /\ ~resp.acceptRanges)
         => (tmp'.len = 0 /\ dc'.bytesRead = 0 /\ ~dc'.canResume)]_vars
  /\ [][(pc # "idle" /\ tmp'.exists /\ tmp'.len > tmp.len) =>
          /\ pc = "body"
          /\ tmp'.len - tmp.len = dc'.bytesRead - dc.bytesRead]_vars
  /\ []((pc = "body" /\ ~dc.canResume) => (tmp.len = 0 /\ dc.bytesRead = 0))

\* the body of a second response is about to be written to the truncated file
TruncateBeforeBodyWitness ==
  /\ pc = "body"
  /\ event = "truncate"
  /\ requests = 2
  /\ tmp.exists /\ tmp.len = 0
  /\ dc.bytesRead = 0

ContentLengthMustMatch ==
  [][(/\ pc = "headers"
      /\ dc.opts.ExpectedSize > 0
      /\ parseContentLength(resp) # dc.opts.ExpectedSize - BytesKept(dc, resp))
     => (FatalStep /\ tmp'.len <= tmp.len)]_vars

\* C32: an expected_size that is unknown when the headers of a response
\* with a Content-Length are read becomes bytes_read + Content-Length if
\* the request of the attempt had a Range header and Content-Length if it
\* had none; a positive expected_size stays as it is until the call returns.
ExpectedSizeResolved ==
  /\ [][(/\ pc = "headers" /\ pc' = "body"
          /\ dc.opts.ExpectedSize <= 0
          /\ parseContentLength(resp) > 0)
         => dc'.opts.ExpectedSize =
              IF range # NoRange THEN dc.bytesRead + parseContentLength(resp)
              ELSE parseContentLength(resp)]_vars
  /\ [][(pc # "idle" /\ dc.opts.ExpectedSize > 0) =>
          dc'.opts.ExpectedSize = dc.opts.ExpectedSize]_vars

\* the Last-Modified of a response, to the minute; the zero time if absent
HeaderMinute(r) ==
  IF r.lastModified = Absent THEN ZeroTime ELSE r.lastModified - (r.lastModified % 60)

\* C33: when the headers of a response pass, expected_last_modified is
\* what it was if the header is absent, the header's minute if it was zero,
\* and otherwise equal to the header's minute already; a header whose
\* minute differs from a non-zero expected_last_modified ends the call
\* there, with no retry, and nothing is published.
LastModifiedChecked ==
  /\ [][(pc = "headers" /\ pc' = "body") =>
          /\ HeaderMinute(resp) = ZeroTime =>
                dc'.opts.ExpectedLastModified = dc.opts.ExpectedLastModified
          /\ (HeaderMinute(resp) # ZeroTime /\ dc.opts.ExpectedLastModified = ZeroTime) =>
                dc'.opts.ExpectedLastModified = HeaderMinute(resp)
          /\ (HeaderMinute(resp) # ZeroTime /\ dc.opts.ExpectedLastModified # ZeroTime) =>
                /\ HeaderMinute(resp) = dc.opts.ExpectedLastModified
                /\ dc'.opts.ExpectedLastModified = dc.opts.ExpectedLastModified]_vars
  /\ [][(pc = "headers" /\ LastModifiedMismatch(dc, resp)) => FatalStep]_vars
  /\ []((pc = "returned" /\ err = "expected Last-Modified") =>
          final = finalAtEntry)

\* a call that was given minute 60 and failed on the first response
LastModifiedCheckedWitness ==
  /\ pc = "returned"
  /\ err = "expected Last-Modified"
  /\ entry.ExpectedLastModified = 60
  /\ requests = 1 /\ sleeps = 0
  /\ finalAtEntry = OldFile /\ final = OldFile

\* C38: a call that returned an error left the file at the final path as
\* it was when the call was entered.
ErrorLeavesFinalUnchanged ==
  (pc = "returned" /\ err # "") => final = finalAtEntry

\* C38 as the code has it: an error return leaves the final path as it
\* was, unless the error is that of the mtime set after the replace; then
\* the path holds the validated bytes of the call with the mtime the
\* temporary file had.
ErrorLeavesFinalUnlessSetTime ==
  /\ (pc = "returned" /\ err \notin {"", "set time failed"}) => final = finalAtEntry
  /\ (pc = "returned" /\ err = "set time failed") =>
       /\ final.exists
       /\ final.len = res.ActualSize
       /\ final.mtime = NowTime
       /\ ~tmp.exists

\* the old file replaced by two bytes, then the error of the mtime
ErrorLeavesFinalUnlessSetTimeWitness ==
  /\ pc = "returned"
  /\ err = "set time failed"
  /\ finalAtEntry = OldFile
  /\ final.len = 2

\* C39: a body is appended to a temporary file that holds bytes only if
\* the request of the attempt asked for the bytes from that offset on.
AppendOnlyAfterRange ==
  [][(pc = "body" /\ tmp.len > 0 /\ tmp'.len > tmp.len) => range = tmp.len]_vars

\* ------------------------------------ retries against a server that is down
\* main_test.go:316-333: a call with max_retry up to MaxBackoffRetry that has
\* created its temporary file and is about to enter downloadImpl
BackoffInit ==
  /\ DiffIdle
  /\ ScrapeIdle
  /\ PoolIdle
  /\ \E m \in 0..MaxBackoffRetry :
       LET opts == [ExpectedSize |-> 0, ExpectedLastModified |-> ZeroTime, MaxRetry |-> m]
       IN /\ entry = opts
          /\ dc = [opts |-> opts, bytesRead |-> 0, curRetry |-> 0, canResume |-> FALSE]
  /\ res = NoResults
  /\ pc = "impl"
  /\ err = ""
  /\ tmp = [exists |-> TRUE, len |-> 0, mtime |-> NowTime]
  /\ final = NoFile
  /\ finalAtEntry = NoFile
  /\ requests = 0
  /\ sleeps = 0
  /\ lastSleep = 0
  /\ range = NoRange
  /\ resp = NoResponse
  /\ event = "none"

\* main_test.go:381-439: downloadImpl when every http.DefaultClient.Do fails
doRequestRefused ==
  /\ pc \in {"impl", "retry"}
  /\ requests <= MaxBackoffRetry
  /\ IF dc.opts.MaxRetry > 0 /\ dc.curRetry >= dc.opts.MaxRetry
       THEN /\ ImplReturn(dc, "max retries exceeded")
            /\ UNCHANGED <<requests, range, event>>
       ELSE /\ requests' = requests + 1
            /\ range' = rangeHeader(dc)
            /\ event' = "transport"
            /\ fnRetryOrErr(dc, "do request")
  /\ UNCHANGED <<res, tmp, final, entry, finalAtEntry>>
  /\ UNCHANGED diffVars
  /\ UNCHANGED poolVars
  /\ UNCHANGED scrapeVars

NextBackoff ==
  \/ doRequestRefused
  \/ DownloadReturn

SpecBackoff == BackoffInit /\ [][NextBackoff]_vars

\* C12: every value backoff(k) can return lies in
\* [500 * 2^min(k,10), 1.1 * 500 * 2^min(k,10)) milliseconds, so does every
\* sleep of a call, and the eleventh sleep of a call with max_retry = 12
\* lies in [512 s, 563.2 s).
BackoffWithinBounds ==
  /\ \A k \in 0..(MaxBackoffRetry + 1) : \A s \in backoff(k) :
       BackoffBase(k) <= s /\ 10 * s < 11 * BackoffBase(k)
  /\ pc = "retry" =>
       /\ sleeps = dc.curRetry
       /\ BackoffBase(sleeps) <= lastSleep
       /\ 10 * lastSleep < 11 * BackoffBase(sleeps)
  /\ (pc = "retry" /\ entry.MaxRetry = 12 /\ sleeps = 11) =>
       (512000 <= lastSleep /\ 10 * lastSleep < 5632000)

\* the eleventh sleep of a call with max_retry = 12, with the largest jitter
BackoffWithinBoundsWitness ==
  /\ pc = "retry"
  /\ entry.MaxRetry = 12
  /\ sleeps = 11
  /\ lastSleep = 563199

\* ------------------------------------------------------------ diff engine
DiffInit ==
  /\ DownloadIdle
  /\ ScrapeIdle
  /\ PoolIdle
  /\ locals \in getSortedLocals
  /\ remotes \in getSortedRemotes
  /\ i = 0
  /\ j = 0
  /\ extra = <<>>
  /\ missing = <<>>
  /\ changed = <<>>
  /\ extraAt = <<>>
  /\ missingAt = <<>>
  /\ changedAt = <<>>
  /\ pairs = <<>>
  /\ run = 1

InMerge == i < Len(locals) /\ j < Len(remotes)

\* main.go:225, the test that sends a paired remote to changed
IsChanged(local, remote) ==
  \/ ~(local.Timestamp = remote.Timestamp)
  \/ local.Size # remote.Size

\* main.go:213-217
DiffLocalLess ==
  /\ InMerge
  /\ locals[i + 1].SortName < remotes[j + 1].SortName
  /\ extra' = Append(extra, locals[i + 1])
  /\ extraAt' = Append(extraAt, i + 1)
  /\ i' = i + 1
  /\ UNCHANGED <<locals, remotes, j, missing, changed, missingAt, changedAt, pairs, run>>
  /\ UNCHANGED dlVars
  /\ UNCHANGED poolVars
  /\ UNCHANGED scrapeVars

\* main.go:219-223
DiffLocalGreater ==
  /\ InMerge
  /\ ~(locals[i + 1].SortName < remotes[j + 1].SortName)
  /\ locals[i + 1].SortName > remotes[j + 1].SortName
  /\ missing' = Append(missing, remotes[j + 1])
  /\ missingAt' = Append(missingAt, j + 1)
  /\ j' = j + 1
  /\ UNCHANGED <<locals, remotes, i, extra, changed, extraAt, changedAt, pairs, run>>
  /\ UNCHANGED dlVars
  /\ UNCHANGED poolVars
  /\ UNCHANGED scrapeVars

\* the equal branch forgetting j++
DiffEqualKeepsRemote ==
  /\ InMerge
  /\ ~(locals[i + 1].SortName < remotes[j + 1].SortName)
  /\ ~(locals[i + 1].SortName > remotes[j + 1].SortName)
  /\ IF IsChanged(locals[i + 1], remotes[j + 1])
       THEN /\ changed' = Append(changed, remotes[j + 1])
            /\ changedAt' = Append(changedAt, j + 1)
       ELSE UNCHANGED <<changed, changedAt>>
  /\ pairs' = Append(pairs, <<i + 1, j + 1>>)
  /\ i' = i + 1
  /\ UNCHANGED <<locals, remotes, j, extra, missing, extraAt, missingAt, run>>
  /\ UNCHANGED dlVars
  /\ UNCHANGED poolVars
  /\ UNCHANGED scrapeVars

\* main.go:225-230
DiffEqual ==
  /\ InMerge
  /\ ~(locals[i + 1].SortName < remotes[j + 1].SortName)
  /\ ~(locals[i + 1].SortName > remotes[j + 1].SortName)
  /\ IF IsChanged(locals[i + 1], remotes[j + 1])
       THEN /\ changed' = Append(changed, remotes[j + 1])
            /\ changedAt' = Append(changedAt, j + 1)
       ELSE UNCHANGED <<changed, changedAt>>
  /\ pairs' = Append(pairs, <<i + 1, j + 1>>)
  /\ i' = i + 1
  /\ j' = j + 1
  /\ UNCHANGED <<locals, remotes, extra, missing, extraAt, missingAt, run>>
  /\ UNCHANGED dlVars
  /\ UNCHANGED poolVars
  /\ UNCHANGED scrapeVars

\* main.go:233-236
DrainLocals ==
  /\ ~InMerge
  /\ i < Len(locals)
  /\ extra' = Append(extra, locals[i + 1])
  /\ extraAt' = Append(extraAt, i + 1)
  /\ i' = i + 1
  /\ UNCHANGED <<locals, remotes, j, missing, changed, missingAt, changedAt, pairs, run>>
  /\ UNCHANGED dlVars
  /\ UNCHANGED poolVars
  /\ UNCHANGED scrapeVars

\* main.go:238-241
DrainRemotes ==
  /\ ~InMerge
  /\ ~(i < Len(locals))
  /\ j < Len(remotes)
  /\ missing' = Append(missing, remotes[j + 1])
  /\ missingAt' = Append(missingAt, j + 1)
  /\ j' = j + 1
  /\ UNCHANGED <<locals, remotes, i, extra, changed, extraAt, changedAt, pairs, run>>
  /\ UNCHANGED dlVars
  /\ UNCHANGED poolVars
  /\ UNCHANGED scrapeVars

DiffDone == ~(i < Len(locals)) /\ ~(j < Len(remotes))

\* ------------------------------------------------- properties of the diff
Range(s) == {s[k] : k \in 1..Len(s)}

NoDup(s) == \A a, b \in 1..Len(s) : a # b => s[a] # s[b]

PairedLocals == {p[1] : p \in Range(pairs)}

PairedRemotes == {p[2] : p \in Range(pairs)}

\* C1: once the diff is done every entry is accounted for exactly once: each
\* local is in extra or paired with a remote of equal sort name (never
\* both, never twice), each remote is in missing or paired, changed holds
\* only paired remotes, the three lists are pairwise disjoint, and
\* |extra| + pairs = |locals|, |missing| + pairs = |remotes|.
DiffIsTotal ==
  DiffDone =>
    /\ \A a \in 1..Len(locals) : (a \in Range(extraAt)) # (a \in PairedLocals)
    /\ \A b \in 1..Len(remotes) : (b \in Range(missingAt)) # (b \in PairedRemotes)
    /\ Range(extraAt) \cup PairedLocals \subseteq 1..Len(locals)
    /\ Range(missingAt) \cup PairedRemotes \subseteq 1..Len(remotes)
    /\ NoDup(extraAt) /\ NoDup(missingAt) /\ NoDup(changedAt) /\ NoDup(pairs)
    /\ \A p, q \in Range(pairs) : (p[1] = q[1] \/ p[2] = q[2]) => p = q
    /\ \A p \in Range(pairs) : locals[p[1]].SortName = remotes[p[2]].SortName
    /\ Range(changedAt) \subseteq PairedRemotes
    /\ Range(changedAt) \cap Range(missingAt) = {}
    /\ Len(extra) = Len(extraAt) /\ Len(missing) = Len(missingAt)
    /\ Len(changed) = Len(changedAt)
    /\ \A k \in 1..Len(extra) : extra[k] = locals[extraAt[k]]
    /\ \A k \in 1..Len(missing) : missing[k] = remotes[missingAt[k]]
    /\ \A k \in 1..Len(changed) : changed[k] = remotes[changedAt[k]]
    /\ Len(extra) + Len(pairs) = Len(locals)
    /\ Len(missing) + Len(pairs) = Len(remotes)

\* a finished diff of two locals sharing one sort name against one remote
\* of that sort name: one pair, one surplus local in extra
DiffIsTotalWitness ==
  /\ DiffDone
  /\ Len(locals) = 2 /\ locals[1].SortName = locals[2].SortName
  /\ locals[1].Name # locals[2].Name
  /\ Len(remotes) = 1
  /\ Len(pairs) = 1 /\ Len(extra) = 1

\* C2: a pair with equal sort name and equal mtime whose remote size is the
\* -1 sentinel is never appended to changed, whatever the local size.
UnknownSizeNeverChanged ==
  \A p \in Range(pairs) :
    (/\ locals[p[1]].Timestamp = remotes[p[2]].Timestamp
     /\ remotes[p[2]].Size = SizeUnknown)
    => p[2] \notin Range(changedAt)

\* C3: a pair with equal sort name and equal or unknown size whose remote
\* mtime is the zero sentinel is never appended to changed, whatever the
\* local mtime.
UnknownTimeNeverChanged ==
  \A p \in Range(pairs) :
    (/\ remotes[p[2]].Timestamp = ZeroTime
     /\ \/ locals[p[1]].Size = remotes[p[2]].Size
        \/ remotes[p[2]].Size = SizeUnknown)
    => p[2] \notin Range(changedAt)

\* C4: a paired remote is in changed if and only if the mtimes differ or
\* the sizes differ with the remote size known; a pair with equal mtime
\* and equal size is in none of extra, missing, changed.
ChangedIffMismatch ==
  \A p \in Range(pairs) :
    /\ (p[2] \in Range(changedAt)) <=>
         \/ locals[p[1]].Timestamp # remotes[p[2]].Timestamp
         \/ /\ locals[p[1]].Size # remotes[p[2]].Size
            /\ remotes[p[2]].Size # SizeUnknown
    /\ (/\ locals[p[1]].Timestamp = remotes[p[2]].Timestamp
        /\ locals[p[1]].Size = remotes[p[2]].Size)
       => /\ p[1] \notin Range(extraAt)
          /\ p[2] \notin Range(missingAt)
          /\ p[2] \notin Range(changedAt)

Increasing(s) == \A a, b \in 1..Len(s) : a < b => s[a] < s[b]

\* C35: the two listings are sorted ascending by sort name and no step of
\* the diff changes them; extra is a subsequence of locals, missing and
\* changed are subsequences of remotes (their entries come from strictly
\* increasing positions), and so each of the three is sorted by sort name.
SortedInSortedOut ==
  /\ [](IsSorted(locals) /\ IsSorted(remotes))
  /\ [][locals' = locals /\ remotes' = remotes]_vars
  /\ [](/\ Increasing(extraAt) /\ Increasing(missingAt) /\ Increasing(changedAt)
        /\ Len(extra) = Len(extraAt)
        /\ Len(missing) = Len(missingAt)
        /\ Len(changed) = Len(changedAt)
        /\ \A k \in 1..Len(extra) : extra[k] = locals[extraAt[k]]
        /\ \A k \in 1..Len(missing) : missing[k] = remotes[missingAt[k]]
        /\ \A k \in 1..Len(changed) : changed[k] = remotes[changedAt[k]]
        /\ IsSorted(extra) /\ IsSorted(missing) /\ IsSorted(changed))

\* a finished diff with one entry in each list
SortedInSortedOutWitness ==
  /\ DiffDone
  /\ Len(locals) = 2 /\ Len(remotes) = 2
  /\ Len(extra) = 1 /\ Len(changed) = 1 /\ Len(missing) = 1
  /\ changedAt = <<1>> /\ missingAt = <<2>>

NextDiff ==
  \/ DiffLocalLess
  \/ DiffLocalGreater
  \/ DiffEqual
  \/ DrainLocals
  \/ DrainRemotes

SpecDiff == DiffInit /\ [][NextDiff]_vars

\* ------------------------------------------------- a run after a run
\* no two entries of a listing have the same name
DistinctNames(s) == \A a, b \in 1..Len(s) : a # b => s[a].Name # s[b].Name

\* main.go:258-262 and main_test.go:344-364: the files a successful
\* DownloadToFile of remote r may leave at its local path: the size is
\* r.Size if that is known and what the server sent if not, the mtime is
\* r.Timestamp if that is not zero and the header's minute or the time of
\* writing if it is
downloaded(r) ==
  {[Name |-> r.Name, SortName |-> ToLower(r.Name), Timestamp |-> t, Size |-> n] :
     t \in (IF r.Timestamp # ZeroTime THEN {r.Timestamp} ELSE {60, NowTime}),
     n \in (IF r.Size > 0 THEN {r.Size} ELSE 1..MaxSize)}

RECURSIVE SortedSeqsOf(_)
\* main.go:342-368: the orders sort.Slice may leave the files of a set in
SortedSeqsOf(F) ==
  IF F = {} THEN {<<>>}
  ELSE UNION {{<<x>> \o t : t \in SortedSeqsOf(F \ {x})} :
                x \in {y \in F : \A z \in F : y.SortName <= z.SortName}}

\* the directory once every item of changed and missing was downloaded, f
\* giving the file each download left
dirAfter(f) ==
  {f[r] : r \in DOMAIN f}
    \cup {l \in Range(locals) : \A r \in DOMAIN f : r.Name # l.Name}

\* main.go:248-302, then main.go:306-340 of the next run: every download of
\* the run succeeded, the program is started again and lists the directory
\* and the same remote listing
RunAgain ==
  /\ run = 1
  /\ DiffDone
  /\ \E f \in [Range(changed \o missing) ->
                  UNION {downloaded(r) : r \in Range(changed \o missing)}] :
       /\ \A r \in DOMAIN f : f[r] \in downloaded(r)
       /\ locals' \in SortedSeqsOf(dirAfter(f))
  /\ remotes' = remotes
  /\ i' = 0
  /\ j' = 0
  /\ extra' = <<>>
  /\ missing' = <<>>
  /\ changed' = <<>>
  /\ extraAt' = <<>>
  /\ missingAt' = <<>>
  /\ changedAt' = <<>>
  /\ pairs' = <<>>
  /\ run' = 2
  /\ UNCHANGED dlVars
  /\ UNCHANGED poolVars
  /\ UNCHANGED scrapeVars

\* a directory and a remote listing, each of files of different names
RerunInit ==
  /\ DiffInit
  /\ DistinctNames(locals)
  /\ DistinctNames(remotes)

NextRerun ==
  \/ NextDiff
  \/ RunAgain

SpecRerun == RerunInit /\ [][NextRerun]_vars

\* C40: the diff of a run that follows a run in which every download
\* succeeded, the remote listing being the same, ends with changed and
\* missing empty, so that no download is started.
RerunIsIdempotent ==
  (run = 2 /\ DiffDone) => (changed = <<>> /\ missing = <<>>)

\* ------------------------------------------------------------ worker pool
\* the file names a server may list, one per sort name
PoolNames == {4 * k - 3 : k \in 1..MaxWork}

\* main_test.go:323: localPath + ".tmp", which sorts right after localPath
TmpName(n) == n + 2

\* the names an entry of the download root may have
DiskNames == PoolNames \cup {TmpName(n) : n \in PoolNames}

\* what the directory and the server hold of each name: the same file, a
\* file whose local mtime differs, a remote file only, a local file only, a
\* local subdirectory only, a remote file of which an earlier run left the
\* temporary file behind (the first name only, to keep the worlds few), a
\* remote file that the listing names twice (the first name only, with
\* nothing else to download)
Worlds ==
  {w \in [PoolNames -> {"same", "changed", "missing", "extra", "subdir", "stale", "twice"}] :
     \A n \in PoolNames :
       /\ w[n] = "stale" => n = 1
       /\ w[n] = "twice" =>
            (n = 1 /\ \A m \in PoolNames \ {n} : w[m] \in {"same", "extra"})}

\* the download root of a world before the run
DiskOf(w) ==
  [d \in DiskNames |->
     IF d \in PoolNames
       THEN (IF w[d] \in {"same", "changed", "extra"} THEN "old"
             ELSE IF w[d] = "subdir" THEN "dir" ELSE "none")
       ELSE (IF w[d - 2] = "stale" THEN "old" ELSE "none")]

\* main.go:350-361: one LocalFile per entry os.ReadDir returned, whatever
\* the entry is; here the entries named n and n + ".tmp"
localEntries(w, n) ==
  (IF w[n] \in {"same", "changed", "extra", "subdir"}
     THEN <<[Name |-> n, SortName |-> ToLower(n),
             Timestamp |-> IF w[n] = "changed" THEN 120 ELSE 60, Size |-> 1]>>
     ELSE <<>>)
  \o (IF w[n] = "stale"
        THEN <<[Name |-> TmpName(n), SortName |-> ToLower(TmpName(n)),
                Timestamp |-> 60, Size |-> 1]>>
        ELSE <<>>)

RECURSIVE localsFrom(_, _)
\* main.go:342-368: the local listing of a world, names from 4k-3 on
localsFrom(w, k) ==
  IF k > MaxWork THEN <<>>
  ELSE localEntries(w, 4 * k - 3) \o localsFrom(w, k + 1)

RECURSIVE remotesFrom(_, _)
\* main.go:370-391: the remote listing of a world, names from 4k-3 on; the
\* scraper appends one RemoteFile per anchor and drops no repeated name
remotesFrom(w, k) ==
  IF k > MaxWork THEN <<>>
  ELSE (IF w[4 * k - 3] \in {"same", "changed", "missing", "stale", "twice"}
          THEN <<[Name |-> 4 * k - 3, SortName |-> ToLower(4 * k - 3),
                  Timestamp |-> 60, Size |-> 1]>>
          ELSE <<>>)
       \o (IF w[4 * k - 3] = "twice"
             THEN <<[Name |-> 4 * k - 3, SortName |-> ToLower(4 * k - 3),
                     Timestamp |-> 60, Size |-> 1]>>
             ELSE <<>>)
       \o remotesFrom(w, k + 1)

\* the values mainExit returns before listFiles: --version and --help (0,
\* or 1 for an unknown version), arguments (1), config (5), scrapers (6, 7)
PreflightExits == {0, 1, 5, 6, 7}

NotListing == [local |-> "idle", remote |-> "idle"]

\* main.go:153-157: cfg.Threads once the flags and the default are applied
PoolInit ==
  /\ DiffIdle
  /\ ScrapeIdle
  /\ DownloadIdle
  /\ mainPc = "start"
  /\ exitCode = -1
  /\ threads \in 1..MaxThreads
  /\ fed = 0
  /\ closed = FALSE
  /\ wk = <<>>
  /\ started = <<>>
  /\ done = <<>>
  /\ failed = {}
  /\ world \in Worlds
  /\ listed = NotListing
  /\ disk = DiskOf(world)

\* main.go:103-197 and 315-327: flags, config and scrapers, then the go
\* statements of listFiles
Preflight ==
  /\ mainPc = "start"
  /\ \/ /\ \E code \in PreflightExits : exitCode' = code
        /\ mainPc' = "returned"
        /\ UNCHANGED listed
     \/ /\ mainPc' = "listing"
        /\ listed' = [local |-> "run", remote |-> "run"]
        /\ UNCHANGED exitCode
  /\ UNCHANGED <<threads, fed, closed, wk, started, done, failed, world, disk>>
  /\ UNCHANGED diffVars
  /\ UNCHANGED dlVars
  /\ UNCHANGED scrapeVars

\* main.go:317-321: the goroutine of getSortedLocals; wg.Done
ListLocal ==
  /\ listed.local = "run"
  /\ \E r \in {"ok", "err"} : listed' = [listed EXCEPT !.local = r]
  /\ UNCHANGED <<mainPc, exitCode, threads, fed, closed, wk, started, done, failed,
                 world, disk>>
  /\ UNCHANGED diffVars
  /\ UNCHANGED dlVars
  /\ UNCHANGED scrapeVars

\* main.go:323-327: the goroutine of getSortedRemotes; wg.Done
ListRemote ==
  /\ listed.remote = "run"
  /\ \E r \in {"ok", "err"} : listed' = [listed EXCEPT !.remote = r]
  /\ UNCHANGED <<mainPc, exitCode, threads, fed, closed, wk, started, done, failed,
                 world, disk>>
  /\ UNCHANGED diffVars
  /\ UNCHANGED dlVars
  /\ UNCHANGED scrapeVars

\* the remote error looked at first
ListJoinRemoteFirst ==
  /\ mainPc = "listing"
  /\ listed.local # "run" /\ listed.remote # "run"
  /\ IF listed.remote = "err"
       THEN /\ exitCode' = 30
            /\ mainPc' = "returned"
            /\ UNCHANGED <<locals, remotes>>
       ELSE IF listed.local = "err"
              THEN /\ exitCode' = 20
                   /\ mainPc' = "returned"
                   /\ UNCHANGED <<locals, remotes>>
              ELSE /\ locals' = localsFrom(world, 1)
                   /\ remotes' = remotesFrom(world, 1)
                   /\ mainPc' = "diff"
                   /\ UNCHANGED exitCode
  /\ UNCHANGED <<i, j, extra, missing, changed, extraAt, missingAt, changedAt, pairs, run>>
  /\ UNCHANGED <<threads, fed, closed, wk, started, done, failed, world, listed, disk>>
  /\ UNCHANGED dlVars
  /\ UNCHANGED scrapeVars

\* main.go:198-201 and 329-339: wg.Wait returns once both goroutines called
\* wg.Done; the errors are looked at, the local one first
ListJoin ==
  /\ mainPc = "listing"
  /\ listed.local # "run" /\ listed.remote # "run"
  /\ IF listed.local = "err"
       THEN /\ exitCode' = 20
            /\ mainPc' = "returned"
            /\ UNCHANGED <<locals, remotes>>
       ELSE IF listed.remote = "err"
              THEN /\ exitCode' = 30
                   /\ mainPc' = "returned"
                   /\ UNCHANGED <<locals, remotes>>
              ELSE /\ locals' = localsFrom(world, 1)
                   /\ remotes' = remotesFrom(world, 1)
                   /\ mainPc' = "diff"
                   /\ UNCHANGED exitCode
  /\ UNCHANGED <<i, j, extra, missing, changed, extraAt, missingAt, changedAt, pairs, run>>
  /\ UNCHANGED <<threads, fed, closed, wk, started, done, failed, world, listed, disk>>
  /\ UNCHANGED dlVars
  /\ UNCHANGED scrapeVars

\* the feeding loops reversed
workMissingFirst == missing \o changed

\* main.go:289-295: the values sent on ch, in the order of the two loops
work == changed \o missing

\* main.go:259-262: the options of a worker's DownloadToFile call
WorkerOptions(r) ==
  [ExpectedSize |-> r.Size, ExpectedLastModified |-> r.Timestamp, MaxRetry |-> 0]

Idle == [pc |-> "recv", item |-> 0]

\* the workers told to remove what the server does not list
SpawnWorkersDeletesExtra ==
  /\ mainPc = "diff"
  /\ DiffDone
  /\ wk' = [w \in 1..threads |-> Idle]
  /\ mainPc' = "feed"
  /\ disk' = [d \in DiskNames |->
                IF \E k \in 1..Len(extra) : extra[k].Name = d THEN "none" ELSE disk[d]]
  /\ UNCHANGED <<exitCode, threads, fed, closed, started, done, failed, world, listed>>
  /\ UNCHANGED diffVars
  /\ UNCHANGED dlVars
  /\ UNCHANGED scrapeVars

\* main.go:243-278: the diff is done and extra is logged; the go statements
\* of the spawn loop
SpawnWorkers ==
  /\ mainPc = "diff"
  /\ DiffDone
  /\ wk' = [w \in 1..threads |-> Idle]
  /\ mainPc' = "feed"
  /\ UNCHANGED <<exitCode, threads, fed, closed, started, done, failed,
                 world, listed, disk>>
  /\ UNCHANGED diffVars
  /\ UNCHANGED dlVars
  /\ UNCHANGED scrapeVars

\* a send that empties the rest of the queue with it
ReceiveDropsRest(w) ==
  /\ mainPc = "feed"
  /\ ~closed
  /\ fed < Len(work)
  /\ w \in DOMAIN wk
  /\ wk[w].pc = "recv"
  /\ wk' = [wk EXCEPT ![w] = [pc |-> "got", item |-> fed + 1]]
  /\ fed' = Len(work)
  /\ UNCHANGED <<mainPc, exitCode, threads, closed, started, done, failed,
                 world, listed, disk>>
  /\ UNCHANGED diffVars
  /\ UNCHANGED dlVars
  /\ UNCHANGED scrapeVars

\* a worker taking the next value although it is busy with one
ReceiveWhileBusy(w) ==
  /\ mainPc = "feed"
  /\ ~closed
  /\ fed < Len(work)
  /\ w \in DOMAIN wk
  /\ wk[w].pc # "exited"
  /\ wk' = [wk EXCEPT ![w] = [pc |-> "got", item |-> fed + 1]]
  /\ fed' = fed + 1
  /\ UNCHANGED <<mainPc, exitCode, threads, closed, started, done, failed,
                 world, listed, disk>>
  /\ UNCHANGED diffVars
  /\ UNCHANGED dlVars
  /\ UNCHANGED scrapeVars

\* main.go:254 and 290-295: ch is unbuffered, so a send of main and the
\* receive of a worker waiting in "for r := range ch" are one step
Receive(w) ==
  /\ mainPc = "feed"
  /\ ~closed
  /\ fed < Len(work)
  /\ w \in DOMAIN wk
  /\ wk[w].pc = "recv"
  /\ wk' = [wk EXCEPT ![w] = [pc |-> "got", item |-> fed + 1]]
  /\ fed' = fed + 1
  /\ UNCHANGED <<mainPc, exitCode, threads, closed, started, done, failed,
                 world, listed, disk>>
  /\ UNCHANGED diffVars
  /\ UNCHANGED dlVars
  /\ UNCHANGED scrapeVars

\* main.go:255-260 and main_test.go:323-330: the worker logs and calls
\* DownloadToFile, which creates (or truncates) localPath + ".tmp"; the
\* steps inside the call are those of SpecDownload, and of its file
\* operations the pool follows the create and the rename
StartDownload(w) ==
  /\ w \in DOMAIN wk
  /\ wk[w].pc = "got"
  /\ started' = Append(started, wk[w].item)
  /\ disk' = [disk EXCEPT ![TmpName(work[wk[w].item].Name)] = "part"]
  /\ wk' = [wk EXCEPT ![w].pc = "download"]
  /\ UNCHANGED <<mainPc, exitCode, threads, fed, closed, done, failed, world, listed>>
  /\ UNCHANGED diffVars
  /\ UNCHANGED dlVars
  /\ UNCHANGED scrapeVars

\* main_test.go:411-429 inside the worker's call: a retryable error; the
\* call gives up only with MaxRetry > 0 and sleeps otherwise
AttemptFails(w) ==
  /\ w \in DOMAIN wk
  /\ wk[w].pc = "download"
  /\ \E exhausted \in (IF WorkerOptions(work[wk[w].item]).MaxRetry > 0
                        THEN BOOLEAN ELSE {FALSE}) :
       IF exhausted
         THEN /\ wk' = [wk EXCEPT ![w] = Idle]
              /\ done' = Append(done, wk[w].item)
              /\ failed' = failed \cup {wk[w].item}
         ELSE /\ wk' = [wk EXCEPT ![w].pc = "backoff"]
              /\ UNCHANGED <<done, failed>>
  /\ UNCHANGED <<mainPc, exitCode, threads, fed, closed, started, world, listed, disk>>
  /\ UNCHANGED diffVars
  /\ UNCHANGED dlVars
  /\ UNCHANGED scrapeVars

\* main_test.go:429-432: the sleep is over, downloadImpl runs again
Wake(w) ==
  /\ w \in DOMAIN wk
  /\ wk[w].pc = "backoff"
  /\ wk' = [wk EXCEPT ![w].pc = "download"]
  /\ UNCHANGED <<mainPc, exitCode, threads, fed, closed, started, done, failed,
                 world, listed, disk>>
  /\ UNCHANGED diffVars
  /\ UNCHANGED dlVars
  /\ UNCHANGED scrapeVars

\* main_test.go:339-356: what the return of DownloadToFile leaves in the
\* download root: after a failed transfer the temporary file stays; after
\* atomic.ReplaceFile the temporary file is the file at localPath
diskAfter(dk, n, ok) ==
  IF ok THEN [dk EXCEPT ![n] = "new", ![TmpName(n)] = "none"] ELSE dk

\* the worker leaving its loop on an error
DownloadReturnsStopsOnError(w) ==
  /\ w \in DOMAIN wk
  /\ wk[w].pc = "download"
  /\ \E ok \in BOOLEAN :
       /\ failed' = IF ok THEN failed ELSE failed \cup {wk[w].item}
       /\ disk' = diskAfter(disk, work[wk[w].item].Name, ok)
       /\ wk' = [wk EXCEPT ![w] = IF ok THEN Idle ELSE [pc |-> "exited", item |-> 0]]
  /\ done' = Append(done, wk[w].item)
  /\ UNCHANGED <<mainPc, exitCode, threads, fed, closed, started, world, listed>>
  /\ UNCHANGED diffVars
  /\ UNCHANGED dlVars
  /\ UNCHANGED scrapeVars

\* main.go:260-275: DownloadToFile returned, with the error of a failed
\* transfer (logged, continue) or without (logged); the worker is back at
\* "for r := range ch"
DownloadReturns(w) ==
  /\ w \in DOMAIN wk
  /\ wk[w].pc = "download"
  /\ \E ok \in BOOLEAN :
       /\ failed' = IF ok THEN failed ELSE failed \cup {wk[w].item}
       /\ disk' = diskAfter(disk, work[wk[w].item].Name, ok)
  /\ done' = Append(done, wk[w].item)
  /\ wk' = [wk EXCEPT ![w] = Idle]
  /\ UNCHANGED <<mainPc, exitCode, threads, fed, closed, started, world, listed>>
  /\ UNCHANGED diffVars
  /\ UNCHANGED dlVars
  /\ UNCHANGED scrapeVars

\* main.go:254 and 276: the range loop ends on the closed channel; wg.Done
WorkerExit(w) ==
  /\ w \in DOMAIN wk
  /\ wk[w].pc = "recv"
  /\ closed
  /\ wk' = [wk EXCEPT ![w].pc = "exited"]
  /\ UNCHANGED <<mainPc, exitCode, threads, fed, closed, started, done, failed,
                 world, listed, disk>>
  /\ UNCHANGED diffVars
  /\ UNCHANGED dlVars
  /\ UNCHANGED scrapeVars

\* the close(ch) left out
CloseQueueForgotten ==
  /\ mainPc = "feed"
  /\ fed = Len(work)
  /\ mainPc' = "wait"
  /\ UNCHANGED <<exitCode, threads, fed, closed, wk, started, done, failed,
                 world, listed, disk>>
  /\ UNCHANGED diffVars
  /\ UNCHANGED dlVars
  /\ UNCHANGED scrapeVars

\* main.go:297-298: every value was sent; close(ch)
CloseQueue ==
  /\ mainPc = "feed"
  /\ fed = Len(work)
  /\ closed' = TRUE
  /\ mainPc' = "wait"
  /\ UNCHANGED <<exitCode, threads, fed, wk, started, done, failed, world, listed, disk>>
  /\ UNCHANGED diffVars
  /\ UNCHANGED dlVars
  /\ UNCHANGED scrapeVars

\* the return without the wg.Wait
WaitReturnNoWait ==
  /\ mainPc = "wait"
  /\ mainPc' = "returned"
  /\ exitCode' = 0
  /\ UNCHANGED <<threads, fed, closed, wk, started, done, failed, world, listed, disk>>
  /\ UNCHANGED diffVars
  /\ UNCHANGED dlVars
  /\ UNCHANGED scrapeVars

\* the return value telling of failed downloads
WaitReturnReportsFailures ==
  /\ mainPc = "wait"
  /\ \A w \in DOMAIN wk : wk[w].pc = "exited"
  /\ mainPc' = "returned"
  /\ exitCode' = IF failed = {} THEN 0 ELSE 1
  /\ UNCHANGED <<threads, fed, closed, wk, started, done, failed, world, listed, disk>>
  /\ UNCHANGED diffVars
  /\ UNCHANGED dlVars
  /\ UNCHANGED scrapeVars

\* main.go:299-302: wg.Wait returns once every worker called wg.Done
WaitReturn ==
  /\ mainPc = "wait"
  /\ \A w \in DOMAIN wk : wk[w].pc = "exited"
  /\ mainPc' = "returned"
  /\ exitCode' = 0
  /\ UNCHANGED <<threads, fed, closed, wk, started, done, failed, world, listed, disk>>
  /\ UNCHANGED diffVars
  /\ UNCHANGED dlVars
  /\ UNCHANGED scrapeVars

\* the steps of the goroutine of mainExit
MainStep ==
  \/ Preflight
  \/ ListJoin
  \/ (mainPc = "diff" /\ NextDiff)
  \/ SpawnWorkers
  \/ \E w \in 1..MaxThreads : Receive(w)
  \/ CloseQueue
  \/ WaitReturn

\* the steps of worker goroutine w
WorkerStep(w) ==
  \/ StartDownload(w)
  \/ AttemptFails(w)
  \/ Wake(w)
  \/ DownloadReturns(w)
  \/ WorkerExit(w)

NextPool ==
  \/ MainStep
  \/ ListLocal
  \/ ListRemote
  \/ \E w \in 1..MaxThreads : WorkerStep(w)

SpecPool == PoolInit /\ [][NextPool]_vars

\* the Go scheduler runs every goroutine that can take a step
SpecPoolFair ==
  /\ PoolInit
  /\ [][NextPool]_vars
  /\ WF_vars(MainStep)
  /\ WF_vars(ListLocal)
  /\ WF_vars(ListRemote)
  /\ \A w \in 1..MaxThreads : WF_vars(WorkerStep(w))

\* ------------------------------------------------- properties of the pool
\* the workers holding a work item
InFlight == {w \in DOMAIN wk : wk[w].pc \in {"got", "download", "backoff"}}

\* C15: at most cfg.Threads workers hold an item, the items sent and not
\* yet finished are exactly those held, so never more than cfg.Threads, and
\* each send hands one item to a worker that was waiting to receive.
PoolBounded ==
  /\ [](Cardinality(InFlight) <= threads)
  /\ [](fed - Len(done) = Cardinality(InFlight))
  /\ [](fed - Len(done) <= threads)
  /\ [][(fed' # fed) =>
          /\ fed' = fed + 1
          /\ \E w \in DOMAIN wk :
               wk[w].pc = "recv" /\ wk'[w] = [pc |-> "got", item |-> fed']]_vars

\* one worker busy with the first of two items, main blocked in its send
PoolBoundedWitness ==
  /\ threads = 1
  /\ Len(work) = 2
  /\ fed = 1
  /\ wk[1] = [pc |-> "download", item |-> 1]
  /\ mainPc = "feed"

\* C16: the step in which a download fails puts its worker back at the
\* receive and changes no other worker, nor the queue, nor main; a worker
\* leaves a download only by the return of its own call; and when the run
\* returns every work item was started and finished.
FailureNeverStopsPool ==
  /\ [][(failed' # failed) =>
          /\ \E w \in DOMAIN wk :
               /\ wk[w].pc = "download"
               /\ wk'[w] = Idle
               /\ \A v \in DOMAIN wk \ {w} : wk'[v] = wk[v]
          /\ closed' = closed /\ fed' = fed /\ mainPc' = mainPc]_vars
  /\ [][(\A w \in DOMAIN wk :
           (/\ wk[w].pc \in {"download", "backoff"}
            /\ wk'[w].pc \notin {"download", "backoff"})
           => /\ wk'[w] = Idle
              /\ done' = Append(done, wk[w].item))]_vars
  /\ []((mainPc = "returned" /\ wk # <<>>) =>
          /\ Range(started) = 1..Len(work)
          /\ Range(done) = 1..Len(work))

\* a single worker whose first download failed and that went on to the second
FailureNeverStopsPoolWitness ==
  /\ mainPc = "returned"
  /\ threads = 1
  /\ done = <<1, 2>>
  /\ failed = {1}

\* C17: a worker exits only from the receive, holding no item, with the
\* queue closed; main returns from the pool only out of wg.Wait with every
\* worker exited; so when the run has returned every item sent was
\* started and finished and every worker is gone.
JoinBeforeReturn ==
  /\ [][(\A w \in DOMAIN wk :
           (wk'[w].pc = "exited" /\ wk[w].pc # "exited") => (closed /\ wk[w] = Idle))]_vars
  /\ [][(mainPc' = "returned" /\ mainPc \notin {"start", "listing", "returned"}) =>
          /\ mainPc = "wait"
          /\ DOMAIN wk = 1..threads
          /\ \A w \in 1..threads : wk[w].pc = "exited"]_vars
  /\ []((mainPc = "returned" /\ wk # <<>>) =>
          /\ closed
          /\ \A w \in 1..threads : wk[w].pc = "exited"
          /\ fed = Len(work)
          /\ Len(started) = Len(work)
          /\ Len(done) = Len(work)
          /\ NoDup(done))

\* two workers, two items, the second finished first, everything joined
JoinBeforeReturnWitness ==
  /\ mainPc = "returned"
  /\ threads = 2
  /\ done = <<2, 1>>

\* the workers inside a DownloadToFile call
Downloading == {w \in DOMAIN wk : wk[w].pc \in {"download", "backoff"}}

\* C36: two workers that are inside DownloadToFile at the same time have
\* items of different names, so their local paths and their temporary
\* files differ.
PathsDisjoint ==
  \A v, w \in Downloading :
    v # w =>
      /\ work[wk[v].item].Name # work[wk[w].item].Name
      /\ TmpName(work[wk[v].item].Name) # TmpName(work[wk[w].item].Name)

\* C37: every item sent is held by one worker or was finished once, never
\* both and never twice; a send hands the next item, and only that, to one
\* worker; no item is started twice; and when the run returns every item
\* of changed and missing was sent and started exactly once.
EachItemOnce ==
  /\ [](\A k \in 1..fed :
          Cardinality({w \in InFlight : wk[w].item = k})
            + Cardinality({n \in 1..Len(done) : done[n] = k}) = 1)
  /\ [](NoDup(started) /\ Range(started) \subseteq 1..fed)
  /\ [][(fed' # fed) =>
          /\ fed' = fed + 1
          /\ Cardinality({w \in DOMAIN wk : wk'[w] # wk[w]}) = 1
          /\ \E w \in DOMAIN wk : wk'[w] = [pc |-> "got", item |-> fed + 1]]_vars
  /\ []((mainPc = "returned" /\ wk # <<>>) =>
          /\ fed = Len(work)
          /\ Len(started) = Len(work)
          /\ Range(started) = 1..Len(work))

\* two items, the second started first and failed, the run returned
EachItemOnceWitness ==
  /\ mainPc = "returned"
  /\ threads = 2
  /\ started = <<2, 1>>
  /\ failed = {2}

\* the k-th value received is the k-th of changed followed by missing, both
\* in ascending sort name order
DispatchInOrder ==
  /\ [][(fed' # fed) =>
          \E w \in DOMAIN wk :
            /\ wk'[w].item = fed + 1
            /\ wk'[w].pc = "got"
            /\ work[wk'[w].item] = (changed \o missing)[fed + 1]]_vars
  /\ [](IsSorted(changed) /\ IsSorted(missing))
  /\ [](mainPc \in {"feed", "wait", "returned"} => Len(work) = Len(changed) + Len(missing))

\* C18 as stated: items are dispatched changed first, then missing, each in
\* ascending sort name order, and the downloads start in that order.
DispatchAndStartInOrder ==
  /\ DispatchInOrder
  /\ [](\A k \in 1..Len(started) : started[k] = k)

\* C18 amended: items are dispatched in that order, and a download starts
\* only after its item was dispatched, once, by the worker that received
\* it; with one worker the downloads start in dispatch order, with more the
\* order of the starts (and of the completions) is not fixed.
DispatchInOrderStartAfter ==
  /\ DispatchInOrder
  /\ [](NoDup(started) /\ Range(started) \subseteq 1..fed)
  /\ [](threads = 1 => \A k \in 1..Len(started) : started[k] = k)
  /\ [][(started' # started) =>
          \E w \in DOMAIN wk :
            /\ wk[w].pc = "got"
            /\ started' = Append(started, wk[w].item)]_vars

\* the second item dispatched is the first whose download starts
DispatchInOrderStartAfterWitness ==
  /\ threads = 2
  /\ started = <<2, 1>>

ExitCodeIgnoresFailures ==
  /\ []((mainPc = "returned" /\ wk # <<>>) => exitCode = 0)
  /\ []((mainPc # "start" /\ mainPc # "returned") => exitCode = -1)
  /\ [][(mainPc' = "returned" /\ mainPc \notin {"start", "listing", "returned"}) =>
          exitCode' = 0]_vars
  /\ [][(exitCode' # exitCode /\ exitCode' # 0) =>
          (mainPc = "start" \/ mainPc = "listing")]_vars
  /\ [](exitCode \notin {-1, 0} =>
          /\ locals = <<>> /\ remotes = <<>>
          /\ wk = <<>> /\ started = <<>> /\ failed = {})

\* a run that returned 0 although both of its downloads failed
ExitCodeIgnoresFailuresWitness ==
  /\ mainPc = "returned"
  /\ exitCode = 0
  /\ Len(work) = 2
  /\ failed = {1, 2}

\* C21: both listings are started together and run side by side; the diff
\* starts only from the join, with both finished and neither failed; a
\* failed local listing ends the run with 20, otherwise a failed remote
\* listing ends it with 30, and such a run has diffed nothing, spawned no
\* worker and started no download.
ListingsJoinedBeforeDiff ==
  /\ [][(mainPc = "start" /\ mainPc' = "listing") =>
          (listed'.local = "run" /\ listed'.remote = "run")]_vars
  /\ []((mainPc \notin {"start", "listing", "returned"}) =>
          (listed.local = "ok" /\ listed.remote = "ok"))
  /\ []((mainPc \in {"start", "listing"}) =>
          (locals = <<>> /\ remotes = <<>> /\ i = 0 /\ j = 0))
  /\ []((mainPc = "returned" /\ listed.local = "err") => exitCode = 20)
  /\ []((mainPc = "returned" /\ listed.local = "ok" /\ listed.remote = "err") =>
          exitCode = 30)
  /\ [](exitCode \in {20, 30} =>
          /\ mainPc = "returned"
          /\ locals = <<>> /\ remotes = <<>>
          /\ i = 0 /\ j = 0
          /\ extra = <<>> /\ missing = <<>> /\ changed = <<>>
          /\ wk = <<>> /\ started = <<>>
          /\ disk = DiskOf(world))

\* a run that returned 20 after both listings failed, with a file to fetch
ListingsJoinedBeforeDiffWitness ==
  /\ mainPc = "returned"
  /\ exitCode = 20
  /\ listed.local = "err" /\ listed.remote = "err"
  /\ \E n \in PoolNames : world[n] = "missing"

\* the entries of the download root that are files whose sort name is the
\* sort name of no remote entry
LocalOnly ==
  {d \in DiskNames :
     /\ DiskOf(world)[d] = "old"
     /\ \A n \in PoolNames :
          world[n] \in {"same", "changed", "missing", "stale"} => ToLower(n) # ToLower(d)}

\* C22: no step of a sync run changes a local file whose sort name matches
\* no remote entry.
LocalOnlyUntouched ==
  [](mainPc # "idle" => \A d \in LocalOnly : disk[d] = "old")

\* C22 as the code has it: the only local-only file a run changes is the
\* one named as a file of the work list plus ".tmp", which the download of
\* that file truncates and then renames or leaves behind; every other
\* local-only file, and every subdirectory, stays as it was.
LocalOnlyUntouchedButTmp ==
  /\ [](mainPc # "idle" =>
          \A d \in LocalOnly : (d \in PoolNames \/ world[d - 2] # "stale") => disk[d] = "old")
  /\ [](mainPc # "idle" =>
          \A n \in PoolNames : world[n] = "subdir" => disk[n] = "dir")
  /\ [][(mainPc # "idle") =>
          \A d \in LocalOnly : disk'[d] # disk[d] =>
             \E w \in DOMAIN wk :
                /\ wk[w].pc \in {"got", "download"}
                /\ d = TmpName(work[wk[w].item].Name)]_vars

\* a returned run that fetched one file and left the local-only one alone
LocalOnlyUntouchedButTmpWitness ==
  /\ mainPc = "returned"
  /\ \E n, m \in PoolNames :
        /\ world[n] = "extra" /\ disk[n] = "old"
        /\ world[m] = "missing" /\ disk[m] = "new"

\* C25: no subdirectory of the download root is in the local list, so none
\* is in extra or paired with a remote.
LocalsOmitDirectories ==
  /\ [](mainPc \notin {"idle", "start", "listing"} =>
          \A k \in 1..Len(locals) : DiskOf(world)[locals[k].Name] # "dir")
  /\ [](mainPc \notin {"idle", "start", "listing"} =>
          \A k \in 1..Len(extra) : DiskOf(world)[extra[k].Name] # "dir")

\* ------------------------------------------------------ archive.org scraper
\* A body is a sequence of lines, and a line is a record whose field k says
\* which of the scraper's expressions it can match.  An href is the
\* sequence of the parts of its text: <<"https:", host, segment, ...>> or
\* <<segment, ...>>, the segments percent-encoded.

\* a one-character name, a name that needs encoding, a name that is too
\* long for the listing's name column
FileNames == {"A", "my file", "long-file-name.png"}

\* strings.ToLower of a file name
toLower(n) == IF n = "A" THEN "a" ELSE n

\* the percent-encoding of a path segment and its inverse
escape(seg) == IF seg = "my file" THEN "my%20file" ELSE seg

unescape(seg) == IF seg = "my%20file" THEN "my file" ELSE seg

\* archivedotorg.go:137: the text of the anchor as the server shows it,
\* "cut short and end in a '..>'" when the name is long
AnchorText(n) == IF n = "long-file-name.png" THEN "long-file-n..>" ELSE n

\* the number of characters of an anchor text: 1, or 2 for 2 and more
TextLen(t) == IF t = "A" THEN 1 ELSE 2

BaseURL == [Scheme |-> "https", Host |-> "archive.org", Path |-> <<"download", "images">>]

\* an entry of the remote directory: a file, and whether its link is absolute
DirEntry == [name : FileNames, mtime : {60, 120}, size : 1..MaxSize, abs : BOOLEAN]

\* the directories of at most MaxEntries files, no name twice
Directories ==
  {d \in SeqsUpTo(DirEntry, MaxEntries) :
     \A a, b \in 1..Len(d) : a # b => d[a].name # d[b].name}

Blank == [k |-> "blank"]

Other == [k |-> "other"]

\* what may stand before the first line of the document
Leads == {<<>>, <<Blank>>, <<Other>>}

\* the href the server writes for an entry
HrefOf(e) ==
  IF e.abs THEN <<"https:", "cdn.archive.org", "items", escape(e.name)>>
  ELSE <<escape(e.name)>>

TimeStr(m) == <<"02-Jan-2006 15:04", m>>

SizeStr(n) == <<"digits", n>>

RECURSIVE simpleLines(_, _)
\* archivedotorg.go:39-52 and 127: the short response, one line per file
\* with the size in bytes
simpleLines(d, k) ==
  IF k > Len(d) THEN <<>>
  ELSE <<[k |-> "sfile", href |-> HrefOf(d[k]), text |-> AnchorText(d[k].name),
          time |-> TimeStr(d[k].mtime), size |-> SizeStr(d[k].size)]>>
       \o simpleLines(d, k + 1)

RECURSIVE fullLines(_, _)
\* archivedotorg.go:39-52 and 182-184: the long response, each file spread
\* over several lines, the time on the line after the name
fullLines(d, k) ==
  IF k > Len(d) THEN <<>>
  ELSE <<[k |-> "fname", href |-> HrefOf(d[k]), text |-> AnchorText(d[k].name)],
         [k |-> "ftime", time |-> TimeStr(d[k].mtime)],
         Other>>
       \o fullLines(d, k + 1)

RECURSIVE gappedLines(_, _)
\* a long response in which an empty line stands between the line of the
\* name and the line of the time
gappedLines(d, k) ==
  IF k > Len(d) THEN <<>>
  ELSE <<[k |-> "fname", href |-> HrefOf(d[k]), text |-> AnchorText(d[k].name)],
         Blank,
         [k |-> "ftime", time |-> TimeStr(d[k].mtime)],
         Other>>
       \o gappedLines(d, k + 1)

\* a link in a table cell of the page header, above the file list
NavLine == [k |-> "fname", href |-> <<"A">>, text |-> "A"]

simpleBody(d) == <<[k |-> "html"], Other>> \o simpleLines(d, 1) \o <<Other>>

\* the long response: the page header with a link of its own, the line of
\* the parent directory, the files
fullBody(d) ==
  <<[k |-> "doctype"], NavLine, Other, [k |-> "parent"], Other>> \o fullLines(d, 1) \o <<Other>>

gappedBody(d) ==
  <<[k |-> "doctype"], Other, [k |-> "parent"], Other>> \o gappedLines(d, 1) \o <<Other>>

\* the bodies a scrape is given
Variants == {"simple", "full", "empty", "gapped"}

Body(v, ld, d) ==
  ld \o (IF v = "simple" THEN simpleBody(d)
         ELSE IF v = "full" THEN fullBody(d)
         ELSE IF v = "gapped" THEN gappedBody(d)
         ELSE <<>>)

\* url.Parse
urlParse(h) ==
  IF h # <<>> /\ h[1] = "https:"
    THEN [Scheme |-> "https", Host |-> h[2],
          Path |-> [x \in 1..(Len(h) - 2) |-> unescape(h[x + 2])]]
    ELSE [Scheme |-> "", Host |-> "", Path |-> [x \in 1..Len(h) |-> unescape(h[x])]]

\* URL.IsAbs
IsAbs(u) == u.Scheme # ""

\* URL.JoinPath: the elements, unescaped, after the path of u
JoinPath(u, h) == [u EXCEPT !.Path = u.Path \o [x \in 1..Len(h) |-> unescape(h[x])]]

\* URL.String
urlString(u) ==
  (IF u.Scheme = "" THEN <<>> ELSE <<u.Scheme \o ":", u.Host>>)
  \o [x \in 1..Len(u.Path) |-> escape(u.Path[x])]

\* path.Base
pathBase(p) == IF p = <<>> THEN "." ELSE p[Len(p)]

\* archivedotorg.go:141-152 and 211-221: the URL of a file line
resolve(h) == IF IsAbs(urlParse(h)) THEN urlParse(h) ELSE JoinPath(BaseURL, h)

\* the name taken from the text of the anchor
fileNameFromAnchor(line, fileURL) == line.text

\* archivedotorg.go:154 and 222
fileName(line, fileURL) == pathBase(fileURL.Path)

\* time.Parse("02-Jan-2006 15:04", timeStr)
timeParse(t) == t[2]

\* strconv.ParseInt(sizeStr, 10, 64)
ParseInt(t) == t[2]

\* archivedotorg.go:110-125: the type of the body, from the first line only
readType(lines) ==
  IF lines # <<>> /\ lines[1].k = "doctype" THEN [type |-> "full", err |-> ""]
  ELSE IF lines # <<>> /\ lines[1].k = "html" THEN [type |-> "simple", err |-> ""]
  ELSE [type |-> "none", err |-> "unrecognized first line"]

\* adoSimpleFileLineRE: the text of the anchor is (.[^<]+)
matchSimpleFileLine(line) == line.k = "sfile" /\ TextLen(line.text) >= 2

\* adoFullFileNameLineRE: the text of the anchor is ([^<]+)
matchFullFileNameLine(line) == line.k = "fname" /\ TextLen(line.text) >= 1

\* adoFullLastModifiedRE
matchFullLastModified(line) == line.k = "ftime"

RECURSIVE parseSimple(_, _, _)
\* archivedotorg.go:129-179, the scanner before line k
parseSimple(lines, k, rs) ==
  IF k > Len(lines) THEN [err |-> "", remotes |-> rs]
  ELSE IF ~matchSimpleFileLine(lines[k]) THEN parseSimple(lines, k + 1, rs)
  ELSE LET fileURL == resolve(lines[k].href)
           name == fileName(lines[k], fileURL)
       IN parseSimple(lines, k + 1,
            Append(rs, [Name |-> name, SortName |-> toLower(name),
                        URL |-> urlString(fileURL),
                        Timestamp |-> timeParse(lines[k].time),
                        Size |-> ParseInt(lines[k].size)]))

RECURSIVE findFileList(_, _)
\* archivedotorg.go:189-199: the line of the parent directory, 0 if none
findFileList(lines, k) ==
  IF k > Len(lines) THEN 0
  ELSE IF lines[k].k = "parent" THEN k ELSE findFileList(lines, k + 1)

RECURSIVE parseFullFiles(_, _, _)
\* archivedotorg.go:201-253, the scanner before line k
parseFullFiles(lines, k, rs) ==
  IF k > Len(lines) THEN [err |-> "", remotes |-> rs]
  ELSE IF ~matchFullFileNameLine(lines[k]) THEN parseFullFiles(lines, k + 1, rs)
  ELSE IF k + 1 > Len(lines) \/ ~matchFullLastModified(lines[k + 1])
         THEN [err |-> "failed to find last modified time", remotes |-> rs]
  ELSE LET fileURL == resolve(lines[k].href)
           name == fileName(lines[k], fileURL)
       IN parseFullFiles(lines, k + 2,
            Append(rs, [Name |-> name, SortName |-> toLower(name),
                        URL |-> urlString(fileURL),
                        Timestamp |-> timeParse(lines[k + 1].time),
                        Size |-> SizeUnknown]))

\* a parse that takes file lines from the top of the document
parseFullFromTop(lines, k, rs) == parseFullFiles(lines, k, rs)

\* archivedotorg.go:187-253, the scanner before line k
parseFull(lines, k, rs) ==
  IF findFileList(lines, k) = 0
    THEN [err |-> "failed to find file list", remotes |-> rs]
    ELSE parseFullFiles(lines, findFileList(lines, k) + 1, rs)

\* archivedotorg.go:85-108; parsedAs is the parser that was run
ScrapeFromReader(lines) ==
  LET t == readType(lines)
      p == IF t.type = "simple" THEN parseSimple(lines, 2, <<>>)
           ELSE parseFull(lines, 2, <<>>)
  IN IF t.err # "" THEN [parsedAs |-> "none", err |-> t.err, remotes |-> <<>>]
     ELSE IF p.err # "" THEN [parsedAs |-> t.type, err |-> p.err, remotes |-> <<>>]
     ELSE [parsedAs |-> t.type, err |-> "", remotes |-> p.remotes]

ScrapeInit ==
  /\ DiffIdle
  /\ DownloadIdle
  /\ PoolIdle
  /\ dir \in Directories
  /\ lead \in Leads
  /\ scraped = [v \in Variants |-> NotScraped]

\* archivedotorg.go:61-83: the body of the response given to ScrapeFromReader
Scrape(v) ==
  /\ scraped[v] = NotScraped
  /\ scraped' = [scraped EXCEPT ![v] = ScrapeFromReader(Body(v, lead, dir))]
  /\ UNCHANGED <<dir, lead>>
  /\ UNCHANGED diffVars
  /\ UNCHANGED dlVars
  /\ UNCHANGED poolVars

NextScrape == \E v \in Variants : Scrape(v)

SpecScrape == ScrapeInit /\ [][NextScrape]_vars

\* ---------------------------------------------- properties of the scraper
\* <<name, url, mtime>> of the records of a result
Triples(rs) == [x \in 1..Len(rs) |-> <<rs[x].Name, rs[x].URL, rs[x].Timestamp>>]

\* C23: the simple and the full body of the same directory parse to the
\* same sequence of (name, url, mtime); the sizes are the byte counts in
\* the simple result and -1 in the full one.
VariantsAgree ==
  (lead = <<>> /\ scraped["simple"] # NotScraped /\ scraped["full"] # NotScraped) =>
     /\ scraped["simple"].err = "" /\ scraped["full"].err = ""
     /\ Triples(scraped["simple"].remotes) = Triples(scraped["full"].remotes)
     /\ \A x \in 1..Len(scraped["full"].remotes) :
          scraped["full"].remotes[x].Size = SizeUnknown
     /\ \A x \in 1..Len(scraped["simple"].remotes) :
          \E y \in 1..Len(dir) :
             /\ dir[y].name = scraped["simple"].remotes[x].Name
             /\ dir[y].size = scraped["simple"].remotes[x].Size

RECURSIVE firstNonEmpty(_, _)
\* the first line of a body that is not empty, Blank if there is none
firstNonEmpty(lines, k) ==
  IF k > Len(lines) THEN Blank
  ELSE IF lines[k] # Blank THEN lines[k] ELSE firstNonEmpty(lines, k + 1)

\* C24: the first non-empty line of the body decides: <!DOCTYPE html> runs
\* the full parser, <html> the simple one, anything else or nothing is an
\* error without records.
TypeFromFirstNonEmptyLine ==
  \A v \in Variants :
     scraped[v] # NotScraped =>
        LET l == firstNonEmpty(Body(v, lead, dir), 1)
        IN /\ l.k = "doctype" => scraped[v].parsedAs = "full"
           /\ l.k = "html" => scraped[v].parsedAs = "simple"
           /\ l.k \notin {"doctype", "html"} =>
                (scraped[v].err # "" /\ scraped[v].remotes = <<>>)

\* the lines of the parent directory link
Sentinels(b) == {k \in 1..Len(b) : b[k].k = "parent"}

\* the lines of a file anchor below the first parent directory line
NameLines(b) ==
  {k \in 1..Len(b) : b[k].k = "fname" /\ \E p \in Sentinels(b) : p < k}

\* C34: of a body parsed as the full variant the lines above the parent
\* directory line give no record; if every file anchor line below it is
\* followed at once by a line with the time, the records are those of
\* these lines, each with its time and with size -1; if one is not, the
\* result is an error and no record at all.
FullParseStrict ==
  \A v \in Variants :
     (scraped[v] # NotScraped /\ scraped[v].parsedAs = "full") =>
        LET b == Body(v, lead, dir)
            res_ == scraped[v]
        IN IF Sentinels(b) = {} THEN res_.err # "" /\ res_.remotes = <<>>
           ELSE IF \A k \in NameLines(b) : k + 1 <= Len(b) /\ b[k + 1].k = "ftime"
             THEN /\ res_.err = ""
                  /\ Len(res_.remotes) = Cardinality(NameLines(b))
                  /\ \A x \in 1..Len(res_.remotes) :
                       /\ res_.remotes[x].Size = SizeUnknown
                       /\ res_.remotes[x].Name = dir[x].name
                       /\ res_.remotes[x].Timestamp = dir[x].mtime
             ELSE res_.err # "" /\ res_.remotes = <<>>

\* a directory of two files: the body with a link above the file list gave
\* the two records, the body with the times one line late gave an error
FullParseStrictWitness ==
  /\ Len(dir) = 2
  /\ lead = <<>>
  /\ scraped["full"].parsedAs = "full"
  /\ scraped["full"].err = ""
  /\ Len(scraped["full"].remotes) = 2
  /\ scraped["gapped"].parsedAs = "full"
  /\ scraped["gapped"].err = "failed to find last modified time"
  /\ scraped["gapped"].remotes = <<>>

\* C26: the name of every record is path.Base of the path of the record's
\* URL, and that URL is the href of a file line as it stands if the href is
\* absolute, the href joined onto the base URL if not; so the name is the
\* file's, also where the listing shows it cut short.
NameIsBaseOfResolvedURL ==
  \A v \in Variants :
     scraped[v] # NotScraped =>
        \A x \in 1..Len(scraped[v].remotes) :
           LET r == scraped[v].remotes[x]
           IN /\ r.Name = pathBase(urlParse(r.URL).Path)
              /\ \E y \in 1..Len(dir) :
                   /\ r.Name = dir[y].name
                   /\ dir[y].abs => r.URL = HrefOf(dir[y])
                   /\ ~dir[y].abs =>
                        /\ urlParse(r.URL).Scheme = BaseURL.Scheme
                        /\ urlParse(r.URL).Host = BaseURL.Host
                        /\ urlParse(r.URL).Path = BaseURL.Path \o <<dir[y].name>>

\* both variants parsed a directory of a long name linked relatively and
\* an encoded name linked absolutely
NameIsBaseOfResolvedURLWitness ==
  /\ lead = <<>>
  /\ Len(dir) = 2
  /\ dir[1].name = "long-file-name.png" /\ ~dir[1].abs
  /\ dir[2].name = "my file" /\ dir[2].abs
  /\ scraped["simple"] # NotScraped /\ Len(scraped["simple"].remotes) = 2
  /\ scraped["full"] # NotScraped /\ Len(scraped["full"].remotes) = 2
  /\ scraped["full"].remotes[1].Name = "long-file-name.png"
  /\ scraped["full"].remotes[1].URL = <<"https:", "archive.org", "download", "images",
                                        "long-file-name.png">>

====
